---- MODULE Spec2Model ----
(***************************************************************************)
(* Behavioural-interview answer analysis (backend/services/hr_analyzer.py) *)
(* as a state machine.  Texts are TLA+ strings over printable ASCII plus   *)
(* tab and line feed; every text operator works on the characters of the   *)
(* string (substring containment, whitespace splitting, lower-casing), as  *)
(* the Python code does.                                                   *)
(***************************************************************************)
EXTENDS Integers, Sequences, FiniteSets, TLC

(***************************************************************************)
(* Python string primitives                                                *)
(***************************************************************************)

\* len(x) > ... helpers
Max2(a, b) == IF a >= b THEN a ELSE b

Min2(a, b) == IF a <= b THEN a ELSE b

\* the i-th character of s, as a one-character string
CharAt(s, i) == SubSeq(s, i, i)

\* str.isspace() for one character (alphabet: space, tab, line feed)
IsWs(c) == c \in {" ", "\t", "\n"}

\* str.isdigit() for one character
IsDigit(c) == c \in {"0", "1", "2", "3", "4", "5", "6", "7", "8", "9"}

\* c in string.punctuation (the grave accent, which a TLA+ string cannot
\* hold, is outside the alphabet)
IsPunct(c) ==
    c \in {"!", "\"", "#", "$", "%", "&", "'", "(", ")", "*", "+", ",", "-",
           ".", "/", ":", ";", "<", "=", ">", "?", "@", "[", "\\", "]", "^",
           "_", "{", "|", "}", "~"}

UpperAlphabet == "ABCDEFGHIJKLMNOPQRSTUVWXYZ"

LowerAlphabet == "abcdefghijklmnopqrstuvwxyz"

\* str.lower() for one character
UpperLetters == {CharAt(UpperAlphabet, k) : k \in 1..Len(UpperAlphabet)}

LowerLetters == {CharAt(LowerAlphabet, k) : k \in 1..Len(LowerAlphabet)}

LowerChar(c) ==
    IF c \in UpperLetters
    THEN LET k == CHOOSE j \in 1..Len(UpperAlphabet) : CharAt(UpperAlphabet, j) = c
         IN  CharAt(LowerAlphabet, k)
    ELSE c

\* str.lower()
RECURSIVE lower(_)
lower(s) ==
    IF Len(s) = 0 THEN ""
    ELSE IF Len(s) = 1 THEN LowerChar(s)
    ELSE LET mid == Len(s) \div 2
         IN  lower(SubSeq(s, 1, mid)) \o lower(SubSeq(s, mid + 1, Len(s)))

\* sub in s
Contains(s, sub) ==
    \E i \in 1..(Len(s) - Len(sub) + 1) : SubSeq(s, i, i + Len(sub) - 1) = sub

\* s.startswith(prefix)
StartsWith(s, prefix) ==
    Len(prefix) <= Len(s) /\ SubSeq(s, 1, Len(prefix)) = prefix

\* the positions lo..hi at which P holds, in increasing order
RECURSIVE Positions(_, _, _)
Positions(P, lo, hi) ==
    IF lo > hi THEN <<>>
    ELSE IF lo = hi THEN (IF P[lo] THEN <<lo>> ELSE <<>>)
    ELSE LET mid == (lo + hi) \div 2
         IN  Positions(P, lo, mid) \o Positions(P, mid + 1, hi)

\* s.split(): the maximal runs of non-whitespace characters, in order
split(s) ==
    LET n  == Len(s)
        ws == [i \in 1..n |-> IsWs(CharAt(s, i))]
        st == [i \in 1..n |-> ~ws[i] /\ (i = 1 \/ ws[i - 1])]
        en == [i \in 1..n |-> ~ws[i] /\ (i = n \/ ws[i + 1])]
        S  == Positions(st, 1, n)
        E  == Positions(en, 1, n)
    IN  [k \in 1..Len(S) |-> SubSeq(s, S[k], E[k])]

\* len(s.split())
WordCount(s) == Len(split(s))

\* s.strip()
strip(s) ==
    LET n    == Len(s)
        keep == {i \in 1..n : ~IsWs(CharAt(s, i))}
    IN  IF keep = {} THEN ""
        ELSE LET a == CHOOSE i \in keep : \A j \in 1..(i - 1) : j \notin keep
                 b == CHOOSE i \in keep : \A j \in (i + 1)..n : j \notin keep
             IN  SubSeq(s, a, b)

\* s.count(sub): occurrences of sub counted left to right without overlap
RECURSIVE CountFrom(_, _, _)
CountFrom(s, sub, from) ==
    LET hits == {i \in from..(Len(s) - Len(sub) + 1) :
                    SubSeq(s, i, i + Len(sub) - 1) = sub}
    IN  IF hits = {} THEN 0
        ELSE LET first == CHOOSE i \in hits : \A j \in hits : i <= j
             IN  1 + CountFrom(s, sub, first + Len(sub))

count(s, sub) == CountFrom(s, sub, 1)

\* s.replace(" ", "")
RECURSIVE RemoveSpaces(_)
RemoveSpaces(s) ==
    IF Len(s) = 0 THEN ""
    ELSE IF Len(s) = 1 THEN (IF s = " " THEN "" ELSE s)
    ELSE LET mid == Len(s) \div 2
         IN  RemoveSpaces(SubSeq(s, 1, mid)) \o RemoveSpaces(SubSeq(s, mid + 1, Len(s)))

\* sum(1 for x in seq if P[x]) for a sequence of keywords
CountWhere(seq, s) == Cardinality({k \in 1..Len(seq) : Contains(s, seq[k])})

\* any(kw in s for kw in seq)
AnyIn(seq, s) == \E k \in 1..Len(seq) : Contains(s, seq[k])

\* " ".join(seq) and "\n".join(seq)
RECURSIVE JoinRange(_, _, _, _)
JoinRange(seq, sep, lo, hi) ==
    IF lo > hi THEN ""
    ELSE IF lo = hi THEN seq[lo]
    ELSE LET mid == (lo + hi) \div 2
         IN  JoinRange(seq, sep, lo, mid) \o sep \o JoinRange(seq, sep, mid + 1, hi)

Join(seq, sep) == JoinRange(seq, sep, 1, Len(seq))

\* the smallest position after i that holds no whitespace (Len(s) + 1 if none):
\* where a regex \s* that starts after position i stops
SkipWs(s, i) ==
    LET rest == {j \in (i + 1)..Len(s) : ~IsWs(CharAt(s, j))}
    IN  IF rest = {} THEN Len(s) + 1
        ELSE CHOOSE j \in rest : \A k \in rest : j <= k

(***************************************************************************)
(* Lexicons (module-level lists of hr_analyzer.py)                         *)
(***************************************************************************)

CONFIDENCE_KEYWORDS ==
    << "led", "lead", "managed", "directed", "spearheaded", "initiated",
       "achieved", "accomplished", "delivered", "exceeded", "surpassed",
       "improved", "increased", "reduced", "optimized", "transformed",
       "responsible", "ownership", "accountable", "drove", "championed",
       "successfully", "effectively", "efficiently", "proactively",
       "decided", "determined", "resolved", "solved", "overcame" >>

LEADERSHIP_KEYWORDS ==
    << "team", "collaborated", "coordinated", "mentored", "coached",
       "delegated", "motivated", "inspired", "influenced", "persuaded",
       "negotiated", "facilitated", "organized", "supervised", "trained",
       "led", "leadership", "cross-functional", "stakeholder", "consensus" >>

StarKeys == {"situation", "task", "action", "result"}

STAR_INDICATORS ==
    [ situation |->
        << "situation", "context", "background", "scenario", "challenge",
           "problem", "issue", "when", "while working", "at my previous",
           "in my role", "during", "faced with" >>,
      task |->
        << "task", "responsibility", "goal", "objective", "assigned",
           "needed to", "had to", "required to", "expected to", "my role was",
           "i was responsible", "charged with" >>,
      action |->
        << "action", "i did", "i took", "implemented", "developed", "created",
           "designed", "built", "established", "initiated", "executed",
           "i decided", "i started", "i began", "my approach", "steps i took" >>,
      result |->
        << "result", "outcome", "impact", "achieved", "accomplished",
           "led to", "resulted in", "consequently", "as a result", "ultimately",
           "success", "improved", "increased", "reduced", "saved", "delivered" >> ]

\* the dict in insertion order: <<topic, keywords>> pairs
QUESTION_RELEVANCE_MAP ==
    << << "challenge",
          << "challenge", "difficult", "hard", "problem", "obstacle",
             "struggle", "issue", "tough", "overcome" >> >>,
       << "difficult team member",
          << "team", "colleague", "coworker", "conflict", "disagreement",
             "difficult person", "communication" >> >>,
       << "leadership",
          << "lead", "led", "team", "managed", "directed", "initiative",
             "guided", "motivated", "inspired" >> >>,
       << "failed",
          << "fail", "mistake", "error", "wrong", "learned", "lesson",
             "setback", "didn't work" >> >>,
       << "deadline",
          << "deadline", "time", "urgent", "quick", "fast", "pressure",
             "rushed", "days", "hours", "weeks" >> >>,
       << "above and beyond",
          << "extra", "beyond", "more than", "additional", "volunteered",
             "initiative", "own time" >> >>,
       << "persuade",
          << "persuade", "convince", "argument", "presented", "explained",
             "showed", "demonstrated", "negotiated" >> >>,
       << "feedback",
          << "feedback", "criticism", "critique", "review", "told me",
             "suggested", "improved", "changed" >> >> >>

VAGUE_PHRASES ==
    << "i worked hard", "i did my best", "i tried", "we worked together",
       "it was difficult", "i managed it", "things worked out", "it went well",
       "i handled it", "i dealt with it", "we figured it out", "i made it happen",
       "i was successful", "good results", "positive outcome", "everything was fine" >>

HEDGING_WORDS ==
    << "maybe", "perhaps", "i think", "i guess", "sort of", "kind of",
       "probably", "might have", "could have", "possibly", "somewhat",
       "i believe", "i feel like", "in a way", "more or less" >>

OFF_TOPIC_PHRASES ==
    << "what was the question", "can you repeat", "i forgot",
       "anyway", "by the way", "unrelated but", "off topic" >>

\* the Python value None where a dict is expected
None == [is_none |-> TRUE]

\* the Python value None where a str is expected (question_type)
NoType == "None"

\* the empty dict {}
EmptyDict == <<>>

(***************************************************************************)
(* RED_FLAG_PATTERNS: each regular expression as a predicate on the        *)
(* lower-cased text it is searched in                                      *)
(***************************************************************************)

\* r";\s*;\s*;"
MatchSemicolons(s) ==
    \E i \in 1..Len(s) :
        /\ CharAt(s, i) = ";"
        /\ LET j == SkipWs(s, i)
           IN  /\ j <= Len(s)
               /\ CharAt(s, j) = ";"
               /\ LET k == SkipWs(s, j)
                  IN  k <= Len(s) /\ CharAt(s, k) = ";"

\* r"(.)\1{4,}": five equal characters in a row, the dot matching no line feed
MatchRepeatedChar(s) ==
    \E i \in 1..(Len(s) - 4) :
        /\ CharAt(s, i) # "\n"
        /\ \A d \in 1..4 : CharAt(s, i + d) = CharAt(s, i)

\* r"w\s*w" for a literal w
MatchDoubled(s, w) ==
    \E i \in 1..(Len(s) - Len(w) + 1) :
        /\ SubSeq(s, i, i + Len(w) - 1) = w
        /\ LET j == SkipWs(s, i + Len(w) - 1)
           IN  /\ j + Len(w) - 1 <= Len(s)
               /\ SubSeq(s, j, j + Len(w) - 1) = w

OneWordAnswers ==
    {"yes", "no", "ok", "okay", "sure", "fine", "good", "bad", "idk", "dunno"}

\* r"^(yes|no|...)\.?$": the whole text, up to one final line feed
MatchOneWord(s) ==
    \E w \in OneWordAnswers : s \in {w, w \o ".", w \o "\n", w \o ".\n"}

\* any(re.search(pattern, text_lower, re.IGNORECASE) for pattern in RED_FLAG_PATTERNS)
MatchesRedFlagPattern(s) ==
    \/ Contains(s, "asdf")
    \/ Contains(s, "qwerty")
    \/ Contains(s, "zxcv")
    \/ Contains(s, "jkl")
    \/ MatchSemicolons(s)
    \/ MatchRepeatedChar(s)
    \/ MatchDoubled(s, "test")
    \/ MatchDoubled(s, "hello")
    \/ MatchDoubled(s, "blah")
    \/ MatchOneWord(s)
    \/ Contains(s, "lorem ipsum")
    \/ Contains(s, "i dont know")
    \/ Contains(s, "i don't know")
    \/ Contains(s, "no idea")
    \/ Contains(s, "not sure")

(***************************************************************************)
(* detect_gibberish                                                        *)
(***************************************************************************)

\* sum(1 for c in text if c in string.punctuation)
PunctCount(text) == Cardinality({i \in 1..Len(text) : IsPunct(CharAt(text, i))})

\* sum(1 for c in text if c.isdigit())
DigitCount(text) == Cardinality({i \in 1..Len(text) : IsDigit(CharAt(text, i))})

\* max(word_counts.values()) if word_counts else 0, word_counts counting
\* the words longer than 2 characters
MaxRepetition(words) ==
    LET long == {k \in 1..Len(words) : Len(words[k]) > 2}
        occ(k) == Cardinality({j \in long : words[j] = words[k]})
        counts == {occ(k) : k \in long}
    IN  IF long = {} THEN 0
        ELSE CHOOSE c \in counts : \A d \in counts : c >= d

\* sum(len(w) for w in words)
RECURSIVE SumLenRange(_, _, _)
SumLenRange(words, lo, hi) ==
    IF lo > hi THEN 0
    ELSE IF lo = hi THEN Len(words[lo])
    ELSE LET mid == (lo + hi) \div 2
         IN  SumLenRange(words, lo, mid) + SumLenRange(words, mid + 1, hi)

\* the divisor without the guard: len(text)
DigitRatioDivisorUnguarded(text) == Len(text)

\* the divisor of digit_ratio: max(len(text), 1)
DigitRatioDivisor(text) == Max2(Len(text), 1)

\* the divisors of the divisions detect_gibberish evaluates on text
GibberishDivisors(text) ==
    LET words == split(lower(text))
    IN  (IF Len(text) > 10 THEN {Len(text)} ELSE {})
            \cup {DigitRatioDivisor(text)}
            \cup (IF Len(words) > 0 THEN {Len(words)} ELSE {})

\* the gate opened for moderate verdicts
IsGibberishSevereOnly(severity) == severity >= 3

\* the gate closed for every verdict
IsGibberishAnySeverity(severity) == severity >= 0

\* is_gibberish of the verdict
IsGibberishSeverity(severity) == severity >= 2

detect_gibberish(text) ==
    LET text_lower   == lower(text)
        pattern      == MatchesRedFlagPattern(text_lower)
        stripped     == RemoveSpaces(text_lower)
        unique_chars == Cardinality({CharAt(stripped, i) : i \in 1..Len(stripped)})
        total_chars  == Len(stripped)
        diversity    == total_chars > 20 /\ unique_chars < 8
        punct_count  == PunctCount(text)
        \* punct_count / len(text) > 0.3
        punct        == Len(text) > 10 /\ 10 * punct_count > 3 * Len(text)
        digit_count  == DigitCount(text)
        \* digit_ratio > 0.3
        digits       == /\ 10 * digit_count > 3 * DigitRatioDivisor(text)
                        /\ ~Contains(text, "%")
                        /\ ~Contains(text, "$")
        words        == split(text_lower)
        repetition   == /\ Len(words) > 0
                        /\ MaxRepetition(words) > 5
                        /\ Len(words) < 50
        total_len    == SumLenRange(words, 1, Len(words))
        \* avg_word_len > 12 or avg_word_len < 2
        wordlen      == /\ Len(words) > 0
                        /\ (total_len > 12 * Len(words) \/ total_len < 2 * Len(words))
        s1 == IF pattern THEN 3 ELSE 0
        s2 == IF diversity THEN Max2(s1, 3) ELSE s1
        s3 == IF punct THEN Max2(s2, 2) ELSE s2
        s4 == IF digits THEN Max2(s3, 2) ELSE s3
        s5 == IF repetition THEN Max2(s4, 2) ELSE s4
        severity == IF wordlen THEN Max2(s5, 2) ELSE s5
        issues ==
               (IF pattern THEN <<"Contains random or placeholder text">> ELSE <<>>)
            \o (IF diversity THEN <<"Very low character diversity - appears random">> ELSE <<>>)
            \o (IF punct THEN <<"Excessive punctuation">> ELSE <<>>)
            \o (IF digits THEN <<"Excessive numbers without context">> ELSE <<>>)
            \o (IF repetition THEN <<"Excessive word repetition">> ELSE <<>>)
            \o (IF wordlen THEN <<"Unusual word patterns">> ELSE <<>>)
    IN  [is_gibberish |-> IsGibberishSeverity(severity),
         severity     |-> severity,
         issues       |-> issues]

(***************************************************************************)
(* check_answer_relevance                                                  *)
(***************************************************************************)

\* the first topic of QUESTION_RELEVANCE_MAP with a keyword in the question
QuestionType(question_lower) ==
    LET hit == {k \in 1..Len(QUESTION_RELEVANCE_MAP) :
                   AnyIn(QUESTION_RELEVANCE_MAP[k][2], question_lower)}
    IN  IF hit = {} THEN NoType
        ELSE LET first == CHOOSE k \in hit : \A j \in hit : k <= j
             IN  QUESTION_RELEVANCE_MAP[first][1]

\* QUESTION_RELEVANCE_MAP[question_type]
RelevantKeywords(question_type) ==
    LET k == CHOOSE j \in 1..Len(QUESTION_RELEVANCE_MAP) :
                 QUESTION_RELEVANCE_MAP[j][1] = question_type
    IN  QUESTION_RELEVANCE_MAP[k][2]

StoryIndicators ==
    << "when", "once", "time", "example", "project", "company", "role", "job" >>

GenericStarts ==
    << "i am a hard worker", "i always try", "i believe in", "i am passionate",
       "communication is important", "teamwork is essential", "i am dedicated" >>

\* is_relevant of the verdict, from the unclamped score
IsRelevantScore(relevance_score) == relevance_score >= 4

check_answer_relevance(question, answer) ==
    LET question_lower == lower(question)
        answer_lower   == lower(answer)
        question_type  == QuestionType(question_lower)
        matches == IF question_type = NoType THEN 0
                   ELSE CountWhere(RelevantKeywords(question_type), answer_lower)
        unaddressed == question_type # NoType /\ matches = 0
        addressed   == question_type # NoType /\ matches >= 2
        off_topic   == AnyIn(OFF_TOPIC_PHRASES, answer_lower)
        has_story   == AnyIn(StoryIndicators, answer_lower)
        no_story    == ~has_story /\ WordCount(answer) > 20
        generic     == \E k \in 1..Len(GenericStarts) :
                          \/ StartsWith(answer_lower, GenericStarts[k])
                          \/ Contains(answer_lower, ". " \o GenericStarts[k])
        relevance_score ==
            5 + (IF unaddressed THEN -3 ELSE 0) + (IF addressed THEN 2 ELSE 0)
              + (IF off_topic THEN -2 ELSE 0) + (IF no_story THEN -2 ELSE 0)
              + (IF generic THEN -2 ELSE 0)
        issues ==
               (IF unaddressed
                THEN <<"Answer doesn't address the '" \o question_type
                          \o "' aspect of the question">>
                ELSE <<>>)
            \o (IF off_topic THEN <<"Contains off-topic indicators">> ELSE <<>>)
            \o (IF no_story THEN <<"Doesn't provide a specific example or story">> ELSE <<>>)
            \o (IF generic
                THEN <<"Uses generic statements instead of specific examples">>
                ELSE <<>>)
    IN  [relevance_score |-> Max2(0, Min2(10, relevance_score)),
         question_type   |-> question_type,
         issues          |-> issues,
         is_relevant     |-> IsRelevantScore(relevance_score)]

(***************************************************************************)
(* detect_red_flags                                                        *)
(***************************************************************************)

BlamePatterns ==
    << "it was their fault", "they made me", "not my fault", "blame",
       "they didn't", "my manager was bad", "my team was incompetent",
       "no one helped me", "they were useless" >>

NegativePatterns ==
    << "i hate", "i hated", "stupid", "dumb", "worst", "terrible company",
       "bad manager", "toxic", "the company was awful" >>

\* bool(re.search(r'\d+%?', text))
HasNumbers(text) == \E i \in 1..Len(text) : IsDigit(CharAt(text, i))

\* the too-brief flag: word_count < 30
TooBrief(word_count) == word_count < 30

detect_red_flags(answer) ==
    LET answer_lower == lower(answer)
        we_count     == count(answer_lower, " we ")
        i_count      == count(answer_lower, " i ")
        has_result_keywords == AnyIn(STAR_INDICATORS.result, answer_lower)
        has_numbers  == HasNumbers(answer)
        word_count   == WordCount(answer)
        hedge_count  == CountWhere(HEDGING_WORDS, answer_lower)
        vague_count  == CountWhere(VAGUE_PHRASES, answer_lower)
    IN     (IF AnyIn(BlamePatterns, answer_lower)
            THEN <<"Blames others instead of taking accountability - major red flag in big tech interviews">>
            ELSE <<>>)
        \o (IF AnyIn(NegativePatterns, answer_lower)
            THEN <<"Displays negative attitude about previous employers - interviewers note this">>
            ELSE <<>>)
        \o (IF we_count > 5 /\ i_count < 2
            THEN <<"Uses 'we' excessively without clarifying your individual contribution">>
            ELSE <<>>)
        \o (IF word_count > 50 /\ ~has_result_keywords
            THEN <<"Long answer with no clear outcome or result mentioned">>
            ELSE <<>>)
        \o (IF has_result_keywords /\ ~has_numbers /\ word_count > 30
            THEN <<"Claims results but provides no quantifiable metrics (%, $, time saved, etc.)">>
            ELSE <<>>)
        \o (IF TooBrief(word_count)
            THEN <<"Response is too brief for a behavioral question - shows lack of depth or preparation">>
            ELSE <<>>)
        \o (IF hedge_count >= 3
            THEN <<"Excessive hedging language undermines confidence">>
            ELSE <<>>)
        \o (IF vague_count >= 2
            THEN <<"Uses vague phrases without concrete details - interviewers want specifics">>
            ELSE <<>>)

(***************************************************************************)
(* The three scorers and the STAR component detector                       *)
(***************************************************************************)

\* max(1, min(10, score))
Clamp(score) == Max2(1, Min2(10, score))

IsSentenceEnd(c) == c \in {".", "!", "?"}

\* re.split(r'[.!?]', answer), each piece stripped, the empty ones dropped
Sentences(answer) ==
    LET n     == Len(answer)
        delim == [i \in 1..n |-> IsSentenceEnd(CharAt(answer, i))]
        D     == Positions(delim, 1, n)
        piece(k) == SubSeq(answer,
                           IF k = 1 THEN 1 ELSE D[k - 1] + 1,
                           IF k = Len(D) + 1 THEN n ELSE D[k] - 1)
        pieces == [k \in 1..(Len(D) + 1) |-> strip(piece(k))]
    IN  SelectSeq(pieces, LAMBDA x : x # "")

\* sum(lengths)
RECURSIVE SumRange(_, _, _)
SumRange(seq, lo, hi) ==
    IF lo > hi THEN 0
    ELSE IF lo = hi THEN seq[lo]
    ELSE LET mid == (lo + hi) \div 2
         IN  SumRange(seq, lo, mid) + SumRange(seq, mid + 1, hi)

\* max(lengths) and min(lengths) of a non-empty sequence
MaxOf(seq) == CHOOSE v \in {seq[k] : k \in 1..Len(seq)} : \A k \in 1..Len(seq) : v >= seq[k]

MinOf(seq) == CHOOSE v \in {seq[k] : k \in 1..Len(seq)} : \A k \in 1..Len(seq) : v <= seq[k]

\* the points for the average sentence length total / n
SentenceLengthPoints(total, n) ==
    IF 10 * n <= total /\ total <= 25 * n THEN 4
    ELSE IF 8 * n <= total /\ total <= 30 * n THEN 2
    ELSE IF total > 40 * n THEN -1
    ELSE IF total < 5 * n THEN -1
    ELSE 0

\* the clarity of an answer of fewer than 20 words
ClarityShort(word_count) ==
    IF word_count < 5 THEN 1 ELSE IF word_count < 10 THEN 2 ELSE 3

evaluate_clarity(answer) ==
    LET word_count == WordCount(answer)
    IN  IF word_count < 20 THEN ClarityShort(word_count)
        ELSE LET sentences == Sentences(answer)
                 n         == Len(sentences)
                 lengths   == [k \in 1..n |-> WordCount(sentences[k])]
             IN  IF n = 0 THEN 1
                 ELSE IF n < 2 THEN 2
                 ELSE LET total == SumRange(lengths, 1, n)
                          long_sentences == Cardinality({k \in 1..n : lengths[k] > 40})
                          variation == MaxOf(lengths) - MinOf(lengths)
                          score == 3 + SentenceLengthPoints(total, n)
                                     + (IF long_sentences = 0 /\ n >= 3 THEN 2 ELSE 0)
                                     + (IF n >= 4 /\ variation > 5 THEN 1 ELSE 0)
                      IN  Clamp(score)

\* the divisors of the divisions evaluate_clarity evaluates on answer
ClarityDivisors(answer) ==
    IF WordCount(answer) < 20 \/ Len(Sentences(answer)) < 2 THEN {}
    ELSE {Len(Sentences(answer))}

count_confidence_keywords(answer_lower) == CountWhere(CONFIDENCE_KEYWORDS, answer_lower)

count_leadership_keywords(answer_lower) == CountWhere(LEADERSHIP_KEYWORDS, answer_lower)

FirstPersonPatterns ==
    << "i led", "i managed", "i decided", "i took", "my decision", "i initiated" >>

ConfidenceHedgingWords ==
    << "maybe", "perhaps", "i think", "i guess", "sort of", "kind of", "probably" >>

\* the keyword tiers with the three-keyword tier worth 2
KeywordPointsShifted(total_keywords) ==
    IF total_keywords >= 8 THEN 5
    ELSE IF total_keywords >= 5 THEN 4
    ELSE IF total_keywords >= 2 THEN 2
    ELSE IF total_keywords >= 1 THEN 1
    ELSE 0

\* the points for total_keywords confidence and leadership keywords
KeywordPoints(total_keywords) ==
    IF total_keywords >= 8 THEN 5
    ELSE IF total_keywords >= 5 THEN 4
    ELSE IF total_keywords >= 3 THEN 3
    ELSE IF total_keywords >= 2 THEN 2
    ELSE IF total_keywords >= 1 THEN 1
    ELSE 0

\* the confidence of an answer of fewer than 20 words
ConfidenceShort(word_count) == IF word_count < 10 THEN 2 ELSE 3

evaluate_confidence(answer_lower) ==
    LET word_count == WordCount(answer_lower)
    IN  IF word_count < 20 THEN ConfidenceShort(word_count)
        ELSE LET total_keywords == count_confidence_keywords(answer_lower)
                                     + count_leadership_keywords(answer_lower)
                 ownership_count == CountWhere(FirstPersonPatterns, answer_lower)
                 hedge_count == CountWhere(ConfidenceHedgingWords, answer_lower)
                 score == 2 + KeywordPoints(total_keywords)
                            + (IF ownership_count >= 3 THEN 2
                               ELSE IF ownership_count >= 1 THEN 1 ELSE 0)
                            - (IF hedge_count >= 3 THEN 3
                               ELSE IF hedge_count >= 1 THEN 1 ELSE 0)
             IN  Clamp(score)

\* the keys detect_star_components fills: those of STAR_INDICATORS
StarComponentKeys == DOMAIN STAR_INDICATORS

detect_star_components(answer_lower) ==
    [component \in StarComponentKeys |->
        AnyIn(STAR_INDICATORS[component], answer_lower)]

\* the component scores with the four-component branch missing
ComponentScoreNoFour(components_count) ==
    IF components_count = 3 THEN 7
    ELSE IF components_count = 2 THEN 4
    ELSE IF components_count = 1 THEN 2
    ELSE 1

\* the score for components_count components, before the bookend bonus
ComponentScore(components_count) ==
    IF components_count = 4 THEN 10
    ELSE IF components_count = 3 THEN 7
    ELSE IF components_count = 2 THEN 4
    ELSE IF components_count = 1 THEN 2
    ELSE 1

\* components_found.get(key): a missing key reads as false
DictGet(dict, key) == IF key \in DOMAIN dict THEN dict[key] ELSE FALSE

\* the score of a components dict, with the situation-and-result bonus
StructureOfComponents(components_found) ==
    LET components_count ==
            Cardinality({c \in DOMAIN components_found : components_found[c]})
        score == ComponentScore(components_count)
    IN  IF DictGet(components_found, "situation") /\ DictGet(components_found, "result")
        THEN Min2(10, score + 1)
        ELSE score

\* the structure of an answer of fewer than 20 words
StructureShort(word_count) == IF word_count < 10 THEN 1 ELSE 2

evaluate_star_structure(answer_lower) ==
    LET word_count == WordCount(answer_lower)
    IN  IF word_count < 20 THEN StructureShort(word_count)
        ELSE StructureOfComponents(detect_star_components(answer_lower))

(***************************************************************************)
(* Penalties and the total (analyze_hr_response, lines 318-331)            *)
(***************************************************************************)

\* the deduction rounded to the nearest integer instead of truncated
RedFlagDeductionRounded(n) == (Min2(3 * n, 10) + 2) \div 4

\* the deduction without the halving: int(min(n * 1.5, 5))
RedFlagDeductionNoHalf(n) == Min2(3 * n, 10) \div 2

\* int(min(n * 1.5, 5) / 2) for n red flags: min(3n, 10) quarters, truncated
RedFlagDeduction(n) == Min2(3 * n, 10) \div 4

\* the truth value of an optional dict: None and the empty dict {}, written
\* << >>, are false (told apart from records by their printed form, which
\* TLC can always compare)
TruthyDict(d) == ToString(d) # ToString(None) /\ ToString(d) # ToString(<< >>)

\* a relevance penalty of 2
RelevancePenaltyTwo(relevance_result) ==
    IF TruthyDict(relevance_result) /\ ~relevance_result.is_relevant THEN 2 ELSE 0

\* relevance_penalty
RelevancePenalty(relevance_result) ==
    IF TruthyDict(relevance_result) /\ ~relevance_result.is_relevant THEN 3 ELSE 0

\* Adjust without the floor at 1
AdjustNoFloor(score, deduction) == score - deduction

\* max(1, score - deduction)
Adjust(score, deduction) == Max2(1, score - deduction)

\* int((clarity + confidence + structure) / 3)
TotalScore(clarity, confidence, structure) == (clarity + confidence + structure) \div 3

(***************************************************************************)
(* Feedback texts.  The symbols outside ASCII are written as tags:         *)
(* [alert] [warn] [clipboard] [flex] [target] [chart] [memo] for the       *)
(* section pictographs and * for the bullet.                               *)
(***************************************************************************)

generate_rejection_feedback(issues) ==
    "This response cannot be evaluated. "
        \o Join(issues, " ") \o " "
        \o "In a real interview at companies like Google, Amazon, or Microsoft, "
        \o "this type of response would immediately disqualify you. "
        \o "Please provide a genuine, thoughtful answer that describes a specific situation from your experience."

\* the slice forgotten: the whole list
TakeAll(seq, n) == seq

\* seq[:n]
Take(seq, n) == SubSeq(seq, 1, Min2(n, Len(seq)))

\* the STAR keys in the order of STAR_INDICATORS
StarOrder == << "situation", "task", "action", "result" >>

UpperChar(c) ==
    IF c \in LowerLetters
    THEN LET k == CHOOSE j \in 1..Len(LowerAlphabet) : CharAt(LowerAlphabet, j) = c
         IN  CharAt(UpperAlphabet, k)
    ELSE c

\* str.upper()
RECURSIVE upper(_)
upper(s) ==
    IF Len(s) = 0 THEN ""
    ELSE IF Len(s) = 1 THEN UpperChar(s)
    ELSE LET mid == Len(s) \div 2
         IN  upper(SubSeq(s, 1, mid)) \o upper(SubSeq(s, mid + 1, Len(s)))

\* [k.upper() for k, v in components.items() if v = want]
ComponentNames(components, want) ==
    LET keys == SelectSeq(StarOrder, LAMBDA k : components[k] = want)
    IN  [i \in 1..Len(keys) |-> upper(keys[i])]

\* a bullet line per entry
Bullets(seq) == [i \in 1..Len(seq) |-> "* " \o seq[i]]

RedFlagSection(red_flags) ==
    IF Len(red_flags) > 0
    THEN <<"[alert] CRITICAL ISSUES DETECTED:">> \o Bullets(Take(red_flags, 3)) \o <<"">>
    ELSE <<>>

\* line 553: relevance_result and relevance_result.get("issues"); a missing
\* key, None or an empty list of issues are all false
HasIssues(relevance_result) ==
    /\ TruthyDict(relevance_result)
    /\ "issues" \in DOMAIN relevance_result
    /\ ToString(relevance_result.issues) # ToString(None)
    /\ Len(relevance_result.issues) > 0

RelevanceSection(relevance_result) ==
    IF HasIssues(relevance_result)
    THEN <<"[warn] RELEVANCE CONCERNS:">> \o Bullets(Take(relevance_result.issues, 2)) \o <<"">>
    ELSE <<>>

StructureSection(structure, answer_lower) ==
    LET components == detect_star_components(answer_lower)
        missing_components == ComponentNames(components, FALSE)
        present_components == ComponentNames(components, TRUE)
    IN  <<"[clipboard] STRUCTURE ANALYSIS:">>
        \o (IF structure >= 8
            THEN <<"* Strong STAR method execution. All components clearly present.">>
            ELSE IF structure >= 5
            THEN <<"* Partial STAR structure detected. Found: "
                     \o (IF Len(present_components) > 0
                         THEN Join(present_components, ", ") ELSE "None") \o ".">>
                 \o (IF Len(missing_components) > 0
                     THEN <<"* Missing: " \o Join(missing_components, ", ")
                              \o ". At Google/Amazon, incomplete STAR = incomplete answer.">>
                     ELSE <<>>)
            ELSE IF structure >= 3
            THEN <<"* Weak structure. Your answer rambles without clear organization.",
                   "* Missing STAR components: " \o Join(missing_components, ", ") \o ".",
                   "* Big tech interviewers are trained to detect missing structure - this would hurt your scorecard.">>
            ELSE <<"* No discernible STAR structure. This is a fundamental requirement for behavioral interviews.",
                   "* At companies like Meta, Microsoft, or Amazon, this answer would receive a 'Not Inclined' rating.">>)
        \o <<"">>

ConfidenceSection(confidence, answer_lower) ==
    LET we_count == count(answer_lower, " we ")
        i_count  == count(answer_lower, " i ")
    IN  <<"[flex] OWNERSHIP & CONFIDENCE:">>
        \o (IF confidence >= 8
            THEN <<"* Good use of first-person ownership. You clearly articulated your individual contributions.">>
            ELSE IF confidence >= 5
            THEN (IF we_count > i_count
                  THEN <<"* Too much 'we' and not enough 'I'. Interviewers want to know what YOU did, not your team.",
                         "* Hiring managers will ask: 'But what was YOUR specific contribution?'">>
                  ELSE <<"* Moderate confidence shown. Add more action verbs (led, drove, delivered, achieved).">>)
            ELSE IF confidence >= 3
            THEN <<"* Weak ownership demonstrated. You sound unsure of your own contributions.",
                   "* Hedging words like 'maybe', 'I think', 'sort of' undermine your credibility.">>
            ELSE <<"* Poor confidence projection. In a real interview, this would raise doubts about your capabilities.",
                   "* Senior interviewers specifically look for candidates who can clearly articulate their impact.">>)
        \o <<"">>

ClaritySection(clarity) ==
    <<"[target] CLARITY & COMMUNICATION:">>
    \o (IF clarity >= 8
        THEN <<"* Clear, well-structured sentences. Easy to follow your narrative.">>
        ELSE IF clarity >= 5
        THEN <<"* Acceptable clarity but could be sharper. Aim for concise, punchy sentences.",
               "* Remember: interviewers are evaluating 5-8 candidates. Make your points memorable.">>
        ELSE IF clarity >= 3
        THEN <<"* Unclear communication. Sentences are either too long or too choppy.",
               "* Practice the 'headline + details' approach: state your point, then elaborate.">>
        ELSE <<"* Very poor clarity. Hard to understand your main points.",
               "* This would be flagged as a communication concern in interviewer feedback.">>)
    \o <<"">>

\* score_sum / 3 < 8 and score_sum / 3 >= k are compared on score_sum
MetricsSection(score_sum, answer_lower) ==
    IF ~HasNumbers(answer_lower) /\ score_sum < 3 * 8
    THEN <<"[chart] MISSING METRICS:",
           "* No quantifiable results mentioned. Big tech LOVES numbers.",
           "* Add metrics like: '20% improvement', 'reduced from 2 weeks to 3 days', '$50K saved'.",
           "">>
    ELSE <<>>

OverallSection(score_sum) ==
    <<"[memo] OVERALL ASSESSMENT:">>
    \o (IF score_sum >= 3 * 8
        THEN <<"* STRONG RESPONSE - Would likely receive a 'Strong Hire' signal for behavioral fit.",
               "* This demonstrates the depth and structure expected at top tech companies.">>
        ELSE IF score_sum >= 3 * 6
        THEN <<"* ACCEPTABLE RESPONSE - 'Inclined' but not exceptional.",
               "* In a competitive loop, this might not be enough. Aim higher.">>
        ELSE IF score_sum >= 3 * 4
        THEN <<"* WEAK RESPONSE - Would likely receive a 'Not Inclined' rating.",
               "* At companies like Amazon (Bar Raiser interviews), this would be concerning.",
               "* You need significant improvement in structure and specificity.">>
        ELSE IF score_sum >= 3 * 2
        THEN <<"* POOR RESPONSE - Would result in 'Strong No Hire' feedback.",
               "* This answer shows lack of preparation for behavioral interviews.",
               "* Recommend: Study STAR method, prepare 6-8 stories with specific metrics.">>
        ELSE <<"* UNACCEPTABLE RESPONSE - Interview would likely be stopped early.",
               "* This type of answer suggests either unprepared candidate or poor fit.",
               "* Action required: Complete preparation overhaul before real interviews.">>)

\* red_flags = red_flags or []: the default None stands for no red flags
\* (TLC cannot compare a one-element list with the record None, so the two
\* are told apart by their printed form)
RedFlagsOrEmpty(red_flags) ==
    IF ToString(red_flags) = ToString(None) THEN <<>> ELSE red_flags

\* feedback_parts, the lines before they are joined
FeedbackParts(clarity, confidence, structure, answer_lower, red_flags, relevance_result) ==
    LET score_sum == clarity + confidence + structure
    IN     RedFlagSection(RedFlagsOrEmpty(red_flags))
        \o RelevanceSection(relevance_result)
        \o StructureSection(structure, answer_lower)
        \o ConfidenceSection(confidence, answer_lower)
        \o ClaritySection(clarity)
        \o MetricsSection(score_sum, answer_lower)
        \o OverallSection(score_sum)

generate_hr_feedback(clarity, confidence, structure, answer_lower, red_flags, relevance_result) ==
    Join(FeedbackParts(clarity, confidence, structure, answer_lower,
                       red_flags, relevance_result), "\n")

(***************************************************************************)
(* analyze_hr_response: the results it returns                             *)
(***************************************************************************)

\* the result returned at the gibberish gate (lines 289-303)
RejectedResult(gibberish_check) ==
    [clarity          |-> 1,
     confidence       |-> 1,
     structure        |-> 1,
     feedback         |-> generate_rejection_feedback(gibberish_check.issues),
     total_score      |-> 1,
     is_valid         |-> FALSE,
     rejection_reason |-> "Invalid response detected",
     details |-> [star_components_found     |-> EmptyDict,
                  confidence_keywords_found |-> 0,
                  leadership_keywords_found |-> 0,
                  red_flags                 |-> gibberish_check.issues]]

\* the result returned after scoring (lines 339-353)
AcceptedResult(clarity, confidence, structure, total, feedback_text, answer_lower, red_flags_found, relevance) ==
    [clarity     |-> clarity,
     confidence  |-> confidence,
     structure   |-> structure,
     feedback    |-> feedback_text,
     total_score |-> total,
     is_valid    |-> TRUE,
     details |-> [star_components_found     |-> detect_star_components(answer_lower),
                  confidence_keywords_found |-> count_confidence_keywords(answer_lower),
                  leadership_keywords_found |-> count_leadership_keywords(answer_lower),
                  red_flags                 |-> red_flags_found,
                  relevance_issues          |-> IF relevance # None
                                                THEN relevance.issues ELSE <<>>]]

\* the whole call as one function of its arguments
analyze_hr_response(answer_text, question_text) ==
    LET answer_lower == lower(answer_text)
        check == detect_gibberish(answer_text)
    IN  IF check.is_gibberish THEN RejectedResult(check)
        ELSE LET relevance == IF question_text # ""
                              THEN check_answer_relevance(question_text, answer_text)
                              ELSE None
                 flags == detect_red_flags(answer_text)
                 deduction == RedFlagDeduction(Len(flags))
                 clarity == Adjust(evaluate_clarity(answer_text), deduction)
                 confidence == Adjust(evaluate_confidence(answer_lower), deduction)
                 structure == Adjust(evaluate_star_structure(answer_lower),
                                     RelevancePenalty(relevance))
             IN  AcceptedResult(clarity, confidence, structure,
                                TotalScore(clarity, confidence, structure),
                                generate_hr_feedback(clarity, confidence, structure,
                                                     answer_lower, flags, relevance),
                                answer_lower, flags, relevance)

(***************************************************************************)
(* get_hr_question_bank (lines 648-683)                                    *)
(***************************************************************************)

get_hr_question_bank ==
    << [question |-> "Tell me about a time you faced a significant challenge at work.",
        focus    |-> << "problem-solving", "resilience", "action-oriented" >>],
       [question |-> "Describe a situation where you had to work with a difficult team member.",
        focus    |-> << "teamwork", "conflict resolution", "communication" >>],
       [question |-> "Give an example of a time you showed leadership.",
        focus    |-> << "leadership", "initiative", "influence" >>],
       [question |-> "Tell me about a time you failed and what you learned from it.",
        focus    |-> << "self-awareness", "growth mindset", "accountability" >>],
       [question |-> "Describe a situation where you had to meet a tight deadline.",
        focus    |-> << "time management", "prioritization", "pressure handling" >>],
       [question |-> "Tell me about a time you went above and beyond for a project.",
        focus    |-> << "initiative", "dedication", "impact" >>],
       [question |-> "Describe a situation where you had to persuade others to see your point of view.",
        focus    |-> << "communication", "influence", "negotiation" >>],
       [question |-> "Tell me about a time you received critical feedback.",
        focus    |-> << "receptiveness", "self-improvement", "professionalism" >>] >>

\* text.split('\n')
Lines(text) ==
    LET breaks == {i \in 1..Len(text) : CharAt(text, i) = "\n"}
        n      == Cardinality(breaks)
        at(k)  == IF k = 0 THEN 0
                  ELSE IF k = n + 1 THEN Len(text) + 1
                  ELSE CHOOSE p \in breaks : Cardinality({q \in breaks : q < p}) = k - 1
    IN  [k \in 1..(n + 1) |-> SubSeq(text, at(k - 1) + 1, at(k) - 1)]

(***************************************************************************)
(* resume_parser.py: clean_text                                            *)
(***************************************************************************)

\* the characters of text at the positions in kept, in order
RECURSIVE KeepRange(_, _, _, _)
KeepRange(text, kept, lo, hi) ==
    IF lo > hi THEN ""
    ELSE IF lo = hi THEN (IF lo \in kept THEN CharAt(text, lo) ELSE "")
    ELSE LET mid == (lo + hi) \div 2
         IN  KeepRange(text, kept, lo, mid) \o KeepRange(text, kept, mid + 1, hi)

\* re.sub(r' +', ' ', text): a space after a space is dropped
CollapseSpaces(text) ==
    LET kept == {i \in 1..Len(text) :
                    ~(CharAt(text, i) = " " /\ i >= 2 /\ CharAt(text, i - 1) = " ")}
    IN  KeepRange(text, kept, 1, Len(text))

\* re.sub(r'\n{3,}', '\n\n', text): a line feed after two line feeds is dropped
CollapseNewlines(text) ==
    LET kept == {i \in 1..Len(text) :
                    ~(/\ CharAt(text, i) = "\n"
                      /\ i >= 3
                      /\ CharAt(text, i - 1) = "\n"
                      /\ CharAt(text, i - 2) = "\n")}
    IN  KeepRange(text, kept, 1, Len(text))

\* [line.strip() for line in text.split('\n')]
StripLines(text) ==
    LET lines == Lines(text)
    IN  [i \in 1..Len(lines) |-> strip(lines[i])]

clean_text(text) ==
    IF text = "" THEN ""
    ELSE strip(Join(StripLines(CollapseNewlines(CollapseSpaces(text))), "\n"))

(***************************************************************************)
(* resume_parser.py: what pdfplumber and the OCR tools hand back           *)
(***************************************************************************)

\* the outcome of a library call that raises
Raises == [raises |-> TRUE]

\* [t for t in page_texts if t]: the truthy page texts (None and '' are dropped)
Truthy(page_texts) == SelectSeq(page_texts, LAMBDA t : t # "")

\* not full_text.strip()
IsEmptyText(full_text) == strip(full_text) = ""

\* extract_text_with_ocr for an outcome of convert_from_bytes and
\* image_to_string: the texts of the page images, or an exception, which
\* the function turns into the empty string
extract_text_with_ocr(outcome) ==
    IF outcome = Raises THEN ""
    ELSE clean_text(Join(Truthy(outcome.page_texts), "\n"))

(***************************************************************************)
(* Inputs: the answers and questions the calls are made with               *)
(***************************************************************************)

\* padding steps appended to an answer, and filler words per step
MaxPad == 2

PadStep == 9

\* n copies of w
RECURSIVE Repeat(_, _)
Repeat(w, n) ==
    IF n <= 0 THEN ""
    ELSE IF n = 1 THEN w
    ELSE Repeat(w, n \div 2) \o Repeat(w, n - n \div 2)

\* filler: n two-letter words, each followed by a space
Padding(n) == Repeat("so ", n)

Heads ==
    { "",
      " \n\t ",
      "     ",
      "I worked hard and it went well I guess. ",
      "Anyway I am a hard worker. ",
      "maybe perhaps it was probably fine. ",
      "It was not my fault and I hate it. ",
      "asdf " }

Bodies ==
    { "",
      "yes",
      "a",
      "not sure",
      "the the the the the the ",
      "call 555 0199 2368 now ",
      "well... um?! ...ok?! ",
      "in that situation ",
      "in that situation the outcome was set ",
      "my task was the action ",
      "my task was the action and the outcome held ",
      "in that situation my task had an outcome ",
      "When the issue hit, my task was to fix it. I led the team, I decided the plan and we delivered a 20% gain as a result. ",
      "In that situation my task was the action plan. We optimized it, solved it and drove a 20% result. ",
      "First we met and we spoke and we agreed on the plan for the week ahead of us. Then we built it. After that we ran it for one more long week and we saw that we had a good result. We won! ",
      "We had one goal. " }

Questions ==
    { "",
      "Tell me about a time you faced a significant challenge at work.",
      "What is your favorite color?" }

Answers == {h \o b \o Padding(k * PadStep) : h \in Heads, b \in Bodies, k \in 0..MaxPad}

\* the answers and questions of the two-call runs
PairCores ==
    { "asdf ",
      "in that situation ",
      "in that situation the outcome was set ",
      "my task was the action and the outcome held ",
      "In that situation my task was the action plan. We optimized it, solved it and drove a 20% result. ",
      "Anyway I am a hard worker. in that situation ",
      "Anyway I am a hard worker. In that situation my task was the action plan. We optimized it, solved it and drove a 20% result. " }

PairAnswers == {c \o Padding(k * PadStep) : c \in PairCores, k \in 0..MaxPad}

PairQuestions == {"", "What is your favorite color?"}

\* the pages of a document, at most
MaxPages == 2

\* what page.extract_text() or image_to_string returns for a page
PageTexts ==
    { "",
      " ",
      "\n",
      "Jane Doe",
      "Skills:  Python \n \n\n SQL " }

\* the page texts of a document of at most MaxPages pages
PageLists == UNION {[1..n -> PageTexts] : n \in 0..MaxPages}

\* the outcomes of the OCR tools on a document
OcrOutcomes == {Raises} \cup {[page_texts |-> l] : l \in PageLists}

\* the length of a text handed to clean_text, at most
MaxLen == 6

\* a letter, the space, the line feed and the tab
Alphabet == {"a", " ", "\n", "\t"}

\* the texts over Alphabet of at most n characters
RECURSIVE Strings(_)
Strings(n) ==
    IF n = 0 THEN {""}
    ELSE LET shorter == Strings(n - 1)
         IN  shorter \cup {t \o c : t \in shorter, c \in Alphabet}

Texts == Strings(MaxLen)

(***************************************************************************)
(* The state: one call of analyze_hr_response at a time, its locals, the   *)
(* functions it has called so far, and the call completed before it        *)
(***************************************************************************)

VARIABLES pc, answer, question, gibberish_check, relevance_result, red_flags,
          clarity_score, confidence_score, structure_score, total_score,
          feedback, result, exception, trace, prev

\* resume_parser.py: one extraction call at a time (its entry point, its
\* position, its locals, what it returned or raised, the text direct
\* extraction gave and whether the OCR fallback was called), and one text
\* being cleaned
VARIABLES x_pc, entry, text_content, full_text, direct_text, ocr_called,
          x_result, x_error, c_pc, raw_text, cleaned, recleaned

hr_vars == << pc, answer, question, gibberish_check, relevance_result, red_flags,
              clarity_score, confidence_score, structure_score, total_score,
              feedback, result, exception, trace, prev >>

parser_vars == << x_pc, entry, text_content, full_text, direct_text, ocr_called,
                  x_result, x_error, c_pc, raw_text, cleaned, recleaned >>

vars == << hr_vars, parser_vars >>

locals == << gibberish_check, relevance_result, red_flags, clarity_score,
             confidence_score, structure_score, total_score, feedback >>

Init ==
    /\ pc = "idle"
    /\ answer = ""
    /\ question = ""
    /\ gibberish_check = None
    /\ relevance_result = None
    /\ red_flags = <<>>
    /\ clarity_score = 0
    /\ confidence_score = 0
    /\ structure_score = 0
    /\ total_score = 0
    /\ feedback = ""
    /\ result = None
    /\ exception = "none"
    /\ trace = <<>>
    /\ prev = None
    /\ x_pc = "idle"
    /\ entry = "none"
    /\ text_content = <<>>
    /\ full_text = ""
    /\ direct_text = ""
    /\ ocr_called = FALSE
    /\ x_result = None
    /\ x_error = "none"
    /\ c_pc = "idle"
    /\ raw_text = ""
    /\ cleaned = ""
    /\ recleaned = ""

\* the locals of a call that has not started
FreshLocals ==
    /\ gibberish_check' = None
    /\ relevance_result' = None
    /\ red_flags' = <<>>
    /\ clarity_score' = 0
    /\ confidence_score' = 0
    /\ structure_score' = 0
    /\ total_score' = 0
    /\ feedback' = ""

\* entry of analyze_hr_response(a, q)
Call(a, q) ==
    /\ pc = "idle"
    /\ UNCHANGED parser_vars
    /\ pc' = "gibberish"
    /\ answer' = a
    /\ question' = q
    /\ UNCHANGED << locals, result, exception, trace, prev >>

\* the caller drops the returned result (and whatever it kept before);
\* the call's values are discarded
Discard ==
    /\ pc = "done"
    /\ UNCHANGED parser_vars
    /\ pc' = "idle"
    /\ answer' = ""
    /\ question' = ""
    /\ FreshLocals
    /\ result' = None
    /\ exception' = "none"
    /\ trace' = <<>>
    /\ prev' = None

\* the caller keeps the arguments and the result of the call that returned
Keep ==
    /\ pc = "done"
    /\ UNCHANGED parser_vars
    /\ prev = None
    /\ pc' = "idle"
    /\ prev' = [answer |-> answer, question |-> question, result |-> result]
    /\ answer' = ""
    /\ question' = ""
    /\ FreshLocals
    /\ result' = None
    /\ exception' = "none"
    /\ trace' = <<>>

\* the call ends in an exception
Raise(name) ==
    /\ pc' = "raised"
    /\ exception' = name
    /\ UNCHANGED << answer, question, locals, result, trace, prev >>

\* line 287: gibberish_check = detect_gibberish(answer)
DetectGibberish ==
    /\ pc = "gibberish"
    /\ UNCHANGED parser_vars
    /\ IF 0 \in GibberishDivisors(answer)
       THEN Raise("ZeroDivisionError")
       ELSE LET check == detect_gibberish(answer)
            IN  /\ gibberish_check' = check
                /\ pc' = IF check.is_gibberish THEN "reject" ELSE "relevance"
                /\ trace' = Append(trace, "detect_gibberish")
                /\ UNCHANGED << answer, question, relevance_result, red_flags,
                                clarity_score, confidence_score, structure_score,
                                total_score, feedback, result, exception, prev >>

\* lines 288-303: the gate returns the rejection result
Reject ==
    /\ pc = "reject"
    /\ UNCHANGED parser_vars
    /\ result' = RejectedResult(gibberish_check)
    /\ pc' = "done"
    /\ trace' = Append(trace, "return")
    /\ UNCHANGED << answer, question, locals, exception, prev >>

\* the relevance check run for an empty question too
QuestionAlways(q) == TRUE

\* line 307: if question
QuestionGiven(q) == q # ""

\* lines 306-308
CheckRelevance ==
    /\ pc = "relevance"
    /\ UNCHANGED parser_vars
    /\ IF QuestionGiven(question)
       THEN /\ relevance_result' = check_answer_relevance(question, answer)
            /\ trace' = Append(trace, "check_answer_relevance")
       ELSE /\ relevance_result' = None
            /\ trace' = trace
    /\ pc' = "red_flags"
    /\ UNCHANGED << answer, question, gibberish_check, red_flags, clarity_score,
                    confidence_score, structure_score, total_score, feedback,
                    result, exception, prev >>

\* line 311
DetectRedFlags ==
    /\ pc = "red_flags"
    /\ UNCHANGED parser_vars
    /\ red_flags' = detect_red_flags(answer)
    /\ pc' = "clarity"
    /\ trace' = Append(trace, "detect_red_flags")
    /\ UNCHANGED << answer, question, gibberish_check, relevance_result,
                    clarity_score, confidence_score, structure_score, total_score,
                    feedback, result, exception, prev >>

\* line 314
EvaluateClarity ==
    /\ pc = "clarity"
    /\ UNCHANGED parser_vars
    /\ IF 0 \in ClarityDivisors(answer)
       THEN Raise("ZeroDivisionError")
       ELSE /\ clarity_score' = evaluate_clarity(answer)
            /\ pc' = "confidence"
            /\ trace' = Append(trace, "evaluate_clarity")
            /\ UNCHANGED << answer, question, gibberish_check, relevance_result,
                            red_flags, confidence_score, structure_score,
                            total_score, feedback, result, exception, prev >>

\* line 315
EvaluateConfidence ==
    /\ pc = "confidence"
    /\ UNCHANGED parser_vars
    /\ confidence_score' = evaluate_confidence(lower(answer))
    /\ pc' = "structure"
    /\ trace' = Append(trace, "evaluate_confidence")
    /\ UNCHANGED << answer, question, gibberish_check, relevance_result, red_flags,
                    clarity_score, structure_score, total_score, feedback,
                    result, exception, prev >>

\* line 316
EvaluateStructure ==
    /\ pc = "structure"
    /\ UNCHANGED parser_vars
    /\ structure_score' = evaluate_star_structure(lower(answer))
    /\ pc' = "penalties"
    /\ trace' = Append(trace, "evaluate_star_structure")
    /\ UNCHANGED << answer, question, gibberish_check, relevance_result, red_flags,
                    clarity_score, confidence_score, total_score, feedback,
                    result, exception, prev >>

\* lines 318-331
ApplyPenalties ==
    /\ pc = "penalties"
    /\ UNCHANGED parser_vars
    /\ LET deduction == RedFlagDeduction(Len(red_flags))
           clarity == Adjust(clarity_score, deduction)
           confidence == Adjust(confidence_score, deduction)
           structure == Adjust(structure_score, RelevancePenalty(relevance_result))
       IN  /\ clarity_score' = clarity
           /\ confidence_score' = confidence
           /\ structure_score' = structure
           /\ total_score' = TotalScore(clarity, confidence, structure)
    /\ pc' = "feedback"
    /\ trace' = Append(trace, "penalties")
    /\ UNCHANGED << answer, question, gibberish_check, relevance_result, red_flags,
                    feedback, result, exception, prev >>

\* lines 334-337
GenerateFeedback ==
    /\ pc = "feedback"
    /\ UNCHANGED parser_vars
    /\ feedback' = generate_hr_feedback(clarity_score, confidence_score, structure_score,
                                        lower(answer), red_flags, relevance_result)
    /\ pc' = "return"
    /\ trace' = Append(trace, "generate_hr_feedback")
    /\ UNCHANGED << answer, question, gibberish_check, relevance_result, red_flags,
                    clarity_score, confidence_score, structure_score, total_score,
                    result, exception, prev >>

\* lines 339-353
Return ==
    /\ pc = "return"
    /\ UNCHANGED parser_vars
    /\ result' = AcceptedResult(clarity_score, confidence_score, structure_score,
                                total_score, feedback, lower(answer), red_flags,
                                relevance_result)
    /\ pc' = "done"
    /\ trace' = Append(trace, "return")
    /\ UNCHANGED << answer, question, locals, exception, prev >>

\* the steps of one call
Step ==
    \/ DetectGibberish
    \/ Reject
    \/ CheckRelevance
    \/ DetectRedFlags
    \/ EvaluateClarity
    \/ EvaluateConfidence
    \/ EvaluateStructure
    \/ ApplyPenalties
    \/ GenerateFeedback
    \/ Return

Next ==
    \/ \E a \in Answers, q \in Questions : Call(a, q)
    \/ Step
    \/ Discard

Spec == Init /\ [][Next]_vars

\* runs of up to two calls, the caller keeping the first call's result
NextPair ==
    \/ \E a \in PairAnswers, q \in PairQuestions : Call(a, q)
    \/ Step
    \/ Keep
    \/ Discard

SpecPair == Init /\ [][NextPair]_vars

\* the questions of the bank
BankQuestions == {get_hr_question_bank[i].question : i \in 1..Len(get_hr_question_bank)}

\* calls that ask the questions of the bank
NextBank ==
    \/ \E a \in PairAnswers, q \in BankQuestions : Call(a, q)
    \/ Step
    \/ Discard

SpecBank == Init /\ [][NextBank]_vars

(***************************************************************************)
(* resume_parser.py: extract_text_from_pdf and extract_text_from_bytes     *)
(***************************************************************************)

\* the locals of an extraction call that has not started
FreshExtraction ==
    /\ text_content' = <<>>
    /\ full_text' = ""
    /\ direct_text' = ""
    /\ ocr_called' = FALSE
    /\ x_result' = None
    /\ x_error' = "none"

\* entry of extract_text_from_pdf(file) or extract_text_from_bytes(pdf_bytes)
ExtractCall(e) ==
    /\ x_pc = "idle"
    /\ entry' = e
    /\ x_pc' = IF e = "extract_text_from_pdf" THEN "read" ELSE "open"
    /\ FreshExtraction
    /\ UNCHANGED << hr_vars, c_pc, raw_text, cleaned, recleaned >>

\* lines 78-82 and 172-173: an exception of the libraries leaves the call
\* as an HTTPException (status 400) or as a ValueError
ParseFailure ==
    /\ x_pc' = "raised"
    /\ x_error' = IF entry = "extract_text_from_pdf"
                  THEN "HTTPException 400: Failed to parse PDF"
                  ELSE "ValueError: Failed to parse PDF"
    /\ UNCHANGED << entry, text_content, full_text, direct_text, ocr_called, x_result >>

\* line 48: contents = await file.read()
ReadFile ==
    /\ x_pc = "read"
    /\ \E ok \in BOOLEAN :
           IF ok
           THEN /\ x_pc' = "open"
                /\ UNCHANGED << entry, text_content, full_text, direct_text,
                                ocr_called, x_result, x_error >>
           ELSE ParseFailure
    /\ UNCHANGED << hr_vars, c_pc, raw_text, cleaned, recleaned >>

\* lines 53-57 and 158-162: pdfplumber opens the document and extracts
\* the text of each page, or raises
OpenPages ==
    /\ x_pc = "open"
    /\ \E outcome \in {Raises} \cup {[page_texts |-> l] : l \in PageLists} :
           IF outcome = Raises
           THEN ParseFailure
           ELSE /\ text_content' = Truthy(outcome.page_texts)
                /\ x_pc' = "clean"
                /\ UNCHANGED << entry, full_text, direct_text, ocr_called,
                                x_result, x_error >>
    /\ UNCHANGED << hr_vars, c_pc, raw_text, cleaned, recleaned >>

\* lines 59-62 and 164: full_text = clean_text("\n".join(text_content))
CleanDirect ==
    /\ x_pc = "clean"
    /\ full_text' = clean_text(Join(text_content, "\n"))
    /\ direct_text' = full_text'
    /\ x_pc' = "fallback"
    /\ UNCHANGED << entry, text_content, ocr_called, x_result, x_error >>
    /\ UNCHANGED << hr_vars, c_pc, raw_text, cleaned, recleaned >>

\* lines 65-66 and 167-168: the OCR fallback for an empty text
Fallback ==
    /\ x_pc = "fallback"
    /\ IF IsEmptyText(full_text)
       THEN \E outcome \in OcrOutcomes :
                /\ full_text' = extract_text_with_ocr(outcome)
                /\ ocr_called' = TRUE
       ELSE UNCHANGED << full_text, ocr_called >>
    /\ x_pc' = IF entry = "extract_text_from_pdf" THEN "check" ELSE "return"
    /\ UNCHANGED << entry, text_content, direct_text, x_result, x_error >>
    /\ UNCHANGED << hr_vars, c_pc, raw_text, cleaned, recleaned >>

\* lines 68-72, extract_text_from_pdf only: no text after the fallback
CheckExtracted ==
    /\ x_pc = "check"
    /\ IF IsEmptyText(full_text)
       THEN /\ x_pc' = "raised"
            /\ x_error' = "HTTPException 400: Could not extract text from PDF"
       ELSE /\ x_pc' = "return"
            /\ x_error' = x_error
    /\ UNCHANGED << entry, text_content, full_text, direct_text, ocr_called, x_result >>
    /\ UNCHANGED << hr_vars, c_pc, raw_text, cleaned, recleaned >>

\* lines 74 and 170: return full_text
ExtractReturn ==
    /\ x_pc = "return"
    /\ x_result' = full_text
    /\ x_pc' = "returned"
    /\ UNCHANGED << entry, text_content, full_text, direct_text, ocr_called, x_error >>
    /\ UNCHANGED << hr_vars, c_pc, raw_text, cleaned, recleaned >>

\* the caller has the text or the exception; the call's values are discarded
ExtractDone ==
    /\ x_pc \in {"returned", "raised"}
    /\ x_pc' = "idle"
    /\ entry' = "none"
    /\ FreshExtraction
    /\ UNCHANGED << hr_vars, c_pc, raw_text, cleaned, recleaned >>

NextParser ==
    \/ \E e \in {"extract_text_from_pdf", "extract_text_from_bytes"} : ExtractCall(e)
    \/ ReadFile
    \/ OpenPages
    \/ CleanDirect
    \/ Fallback
    \/ CheckExtracted
    \/ ExtractReturn
    \/ ExtractDone

SpecParser == Init /\ [][NextParser]_vars

(***************************************************************************)
(* resume_parser.py: clean_text called on a text, and on its own output    *)
(***************************************************************************)

\* the extraction call in progress is left alone
ExtractionUnchanged ==
    UNCHANGED << x_pc, entry, text_content, full_text, direct_text, ocr_called,
                 x_result, x_error >>

\* clean_text(t) is called
CleanCall(t) ==
    /\ c_pc = "idle"
    /\ raw_text' = t
    /\ c_pc' = "called"
    /\ UNCHANGED << hr_vars, cleaned, recleaned >>
    /\ ExtractionUnchanged

\* lines 95-109
Clean ==
    /\ c_pc = "called"
    /\ cleaned' = clean_text(raw_text)
    /\ c_pc' = "cleaned"
    /\ UNCHANGED << hr_vars, raw_text, recleaned >>
    /\ ExtractionUnchanged

\* clean_text called on the text it returned
CleanAgain ==
    /\ c_pc = "cleaned"
    /\ recleaned' = clean_text(cleaned)
    /\ c_pc' = "recleaned"
    /\ UNCHANGED << hr_vars, raw_text, cleaned >>
    /\ ExtractionUnchanged

\* the texts are discarded
CleanDone ==
    /\ c_pc = "recleaned"
    /\ c_pc' = "idle"
    /\ raw_text' = ""
    /\ cleaned' = ""
    /\ recleaned' = ""
    /\ UNCHANGED hr_vars
    /\ ExtractionUnchanged

NextClean ==
    \/ \E t \in Texts : CleanCall(t)
    \/ Clean
    \/ CleanAgain
    \/ CleanDone

SpecClean == Init /\ [][NextClean]_vars

(***************************************************************************)
(* Properties of the returned result                                       *)
(***************************************************************************)

\* the call has returned
Returned == pc = "done"

\* C1: every returned clarity, confidence, structure and total_score is an
\* integer from 1 to 10, on the rejected and on the accepted path
C1_ScoresInRange ==
    Returned =>
        /\ result.clarity \in 1..10
        /\ result.confidence \in 1..10
        /\ result.structure \in 1..10
        /\ result.total_score \in 1..10

\* an accepted answer whose penalties reach the floor of 1
C1_Witness ==
    /\ Returned
    /\ result.is_valid
    /\ Len(red_flags) >= 2
    /\ relevance_result # None
    /\ ~relevance_result.is_relevant
    /\ structure_score = 1
    /\ confidence_score = 1

\* C2: a gibberish verdict of severity 2 or more is returned with
\* is_valid False and all four scores equal to 1
C2_GateRejects ==
    (Returned /\ gibberish_check.severity >= 2) =>
        /\ result.is_valid = FALSE
        /\ result.clarity = 1
        /\ result.confidence = 1
        /\ result.structure = 1
        /\ result.total_score = 1

\* a moderate verdict (word repetition alone) returned as rejected
C2_Witness ==
    /\ Returned
    /\ gibberish_check.severity = 2
    /\ gibberish_check.issues = << "Excessive word repetition" >>
    /\ result.is_valid = FALSE
    /\ result.total_score = 1

\* C3 as stated: is_valid is False only when the gibberish severity is 3
C3_InvalidOnlySevere ==
    (Returned /\ result.is_valid = FALSE) => gibberish_check.severity = 3

\* C3: is_valid is False only when the gibberish severity is 2 or 3; a
\* verdict of severity 0 or 1 is always returned with is_valid True
C3_InvalidOnlyGibberish ==
    Returned =>
        /\ result.is_valid = FALSE => gibberish_check.severity \in {2, 3}
        /\ gibberish_check.severity \in {0, 1} => result.is_valid = TRUE

\* an answer of moderate severity (punctuation alone) returned invalid
C3_Witness ==
    /\ Returned
    /\ result.is_valid = FALSE
    /\ gibberish_check.severity = 2
    /\ gibberish_check.issues = << "Excessive punctuation" >>

\* C4 as stated: details.star_components_found of every returned result has
\* exactly the keys situation, task, action and result
C4_StarKeysAlways ==
    Returned => DOMAIN result.details.star_components_found = StarKeys

\* the functions one call runs, in order, for a verdict and a question
ExpectedTrace(is_gibberish, question_given) ==
    IF is_gibberish
    THEN << "detect_gibberish", "return" >>
    ELSE << "detect_gibberish" >>
         \o (IF question_given THEN << "check_answer_relevance" >> ELSE << >>)
         \o << "detect_red_flags", "evaluate_clarity", "evaluate_confidence",
               "evaluate_star_structure", "penalties", "generate_hr_feedback",
               "return" >>

\* C5: a call runs the gibberish check first and nothing else when it
\* rejects; otherwise the relevance check exactly when the question is
\* non-empty, then red flags, clarity, confidence, structure, the
\* penalties, the feedback and the return, in this order
C5_StepOrder ==
    pc \in {"reject", "relevance", "red_flags", "clarity", "confidence",
            "structure", "penalties", "feedback", "return", "done"} =>
        LET expected == ExpectedTrace(gibberish_check.is_gibberish, question # "")
        IN  /\ Len(trace) <= Len(expected)
            /\ trace = SubSeq(expected, 1, Len(trace))
            /\ Returned => trace = expected

\* an accepted answer to a question, returned after all nine steps
C5_Witness ==
    /\ Returned
    /\ question # ""
    /\ result.is_valid
    /\ Len(trace) = 9
    /\ trace[2] = "check_answer_relevance"

\* the short-circuit clarity tier of an answer of 5 to 19 words
ShortTier(word_count) == IF word_count < 10 THEN 2 ELSE 3

\* the deduction the code takes from clarity and confidence for n red flags
DeductionFor(n) == IF n <= 1 THEN 0 ELSE IF n = 2 THEN 1 ELSE 2

\* the call has returned an accepted result for an answer of 5 to 19 words
ShortAccepted ==
    /\ Returned
    /\ result.is_valid
    /\ WordCount(answer) \in 5..19

\* C6 as stated: an accepted answer of 5 to 19 words is returned with the
\* clarity of its tier, 2 below 10 words and 3 from 10 to 19
C6_ClarityIsTier ==
    ShortAccepted => result.clarity = ShortTier(WordCount(answer))

\* C6: an accepted answer of 5 to 19 words is returned with the clarity of
\* its tier less the red-flag deduction (0 for at most one flag, 1 for two,
\* 2 for three or more), not below 1: the tier value itself exactly when the
\* answer has at most one red flag
C6_ClarityIsTierLessDeduction ==
    ShortAccepted =>
        LET tier == ShortTier(WordCount(answer))
            n    == Len(result.details.red_flags)
        IN  /\ result.clarity = IF tier - DeductionFor(n) < 1 THEN 1
                                ELSE tier - DeductionFor(n)
            /\ n <= 1 => result.clarity = tier

\* the nine-word answer of the scenario: two red flags, clarity 2 - 1
C6_Witness ==
    /\ ShortAccepted
    /\ answer = "I worked hard and it went well I guess. "
    /\ Len(result.details.red_flags) = 2
    /\ result.clarity = 1

\* a digit followed by a percent sign
HasPercentage(s) ==
    \E i \in 1..(Len(s) - 1) : IsDigit(CharAt(s, i)) /\ CharAt(s, i + 1) = "%"

\* 20 or more words, an indicator of each STAR component, three or more
\* confidence keywords, a percentage and no hedging word
StrongAnswer(a) ==
    /\ WordCount(a) >= 20
    /\ \A component \in StarKeys : AnyIn(STAR_INDICATORS[component], lower(a))
    /\ CountWhere(CONFIDENCE_KEYWORDS, lower(a)) >= 3
    /\ HasPercentage(a)
    /\ ~AnyIn(HEDGING_WORDS, lower(a))

\* C7 as stated: such an answer, analysed without a question, is returned
\* with is_valid True, structure 7 or more and confidence 6 or more
C7_StrongAnswerScores ==
    (Returned /\ question = "" /\ StrongAnswer(answer)) =>
        /\ result.is_valid = TRUE
        /\ result.structure >= 7
        /\ result.confidence >= 6

\* C7: such an answer, analysed without a question and not rejected by the
\* gibberish gate, is returned with is_valid True, structure 10 and
\* confidence at least 5 less the red-flag deduction; confidence is 6 or
\* more when it has at most one red flag and either five keywords or a
\* first-person ownership phrase
C7_StrongAnswerAccepted ==
    (Returned /\ question = "" /\ StrongAnswer(answer)
              /\ ~gibberish_check.is_gibberish) =>
        LET n        == Len(result.details.red_flags)
            keywords == result.details.confidence_keywords_found
                        + result.details.leadership_keywords_found
        IN  /\ result.is_valid = TRUE
            /\ result.structure = 10
            /\ result.confidence >= 5 - DeductionFor(n)
            /\ (n <= 1 /\ (keywords >= 5 \/ AnyIn(FirstPersonPatterns, lower(answer))))
                   => result.confidence >= 6

\* a strong answer with exactly three keywords, returned with confidence 5
C7_Witness ==
    /\ Returned
    /\ question = ""
    /\ StrongAnswer(answer)
    /\ result.is_valid
    /\ result.details.confidence_keywords_found = 3
    /\ result.structure = 10
    /\ result.confidence = 5

\* the word-count tier of the structure scorer
StructureTier(a) ==
    IF WordCount(a) < 10 THEN 1 ELSE IF WordCount(a) < 20 THEN 2 ELSE 3

\* the relevance penalty of the call analyze_hr_response(a, q)
PenaltyOfCall(a, q) ==
    IF q # "" /\ ~check_answer_relevance(q, a).is_relevant THEN 3 ELSE 0

\* the STAR components a returned accepted result reports as detected
Detected(r) ==
    {component \in StarKeys : r.details.star_components_found[component]}

\* two accepted results at hand, of the same tier and relevance penalty
ComparablePair ==
    /\ Returned
    /\ prev # None
    /\ prev.result.is_valid
    /\ result.is_valid
    /\ StructureTier(prev.answer) = StructureTier(answer)
    /\ PenaltyOfCall(prev.answer, prev.question) = PenaltyOfCall(answer, question)

\* C8: of two answers in the same word-count tier with the same relevance
\* penalty, one whose detected STAR components include the other's has a
\* structure score at least as high
C8_StructureMonotone ==
    (ComparablePair /\ Detected(result) \subseteq Detected(prev.result)) =>
        prev.result.structure >= result.structure

\* all four components against one component, both of 20 words or more,
\* the first scoring strictly higher
C8_Witness ==
    /\ ComparablePair
    /\ StructureTier(answer) = 3
    /\ Detected(prev.result) = StarKeys
    /\ Cardinality(Detected(result)) = 1
    /\ prev.result.structure > result.structure

\* the same answer analysed first without a question, then with a question
\* of no topic type, both accepted
NoTypePair ==
    /\ Returned
    /\ prev # None
    /\ prev.answer = answer
    /\ prev.question = ""
    /\ question # ""
    /\ result.is_valid
    /\ relevance_result.question_type = NoType

\* C9 as stated: with a question of no topic type the four scores equal
\* those of the same answer analysed with no question
C9_NoTypeSameScores ==
    NoTypePair =>
        /\ result.clarity = prev.result.clarity
        /\ result.confidence = prev.result.confidence
        /\ result.structure = prev.result.structure
        /\ result.total_score = prev.result.total_score

\* C9: with a question of no topic type, clarity and confidence equal
\* those of the same answer analysed with no question; the answer is
\* irrelevant exactly when an off-topic, no-story or generic-statement
\* issue is reported, and then structure is 3 lower, not below 1, and
\* otherwise equal; total_score is the truncated mean of the three
C9_NoTypeStructurePenalty ==
    NoTypePair =>
        LET issues   == Len(result.details.relevance_issues)
            expected == IF issues = 0 THEN prev.result.structure
                        ELSE IF prev.result.structure - 3 < 1 THEN 1
                        ELSE prev.result.structure - 3
        IN  /\ result.clarity = prev.result.clarity
            /\ result.confidence = prev.result.confidence
            /\ relevance_result.is_relevant <=> issues = 0
            /\ result.structure = expected
            /\ result.total_score =
                   (result.clarity + result.confidence + result.structure) \div 3

\* an answer with a relevance issue, its structure lowered by the
\* question of no topic type
C9_Witness ==
    /\ NoTypePair
    /\ Len(result.details.relevance_issues) >= 1
    /\ prev.result.structure = 10
    /\ result.structure = 7

\* every character of s is whitespace (the empty string included)
IsBlank(s) == \A i \in 1..Len(s) : IsWs(CharAt(s, i))

\* a call on a blank answer has ended, by a return or by an exception
BlankEnded == pc \in {"done", "raised"} /\ IsBlank(answer)

\* C10 as stated: a call on an empty or whitespace-only answer does
\* not raise and returns the rejection result or an accepted result with
\* clarity, confidence, structure and total_score all 1
C10_BlankLowestScores ==
    BlankEnded =>
        /\ pc = "done"
        /\ \/ result.is_valid = FALSE
           \/ /\ result.is_valid = TRUE
              /\ result.clarity = 1
              /\ result.confidence = 1
              /\ result.structure = 1
              /\ result.total_score = 1

\* C10: a call on an empty or whitespace-only answer does not raise
\* and returns the rejection result (all four scores 1) or an accepted
\* result with clarity, structure and total_score 1 and confidence 2
C10_BlankScores ==
    BlankEnded =>
        /\ pc = "done"
        /\ result.clarity = 1
        /\ result.structure = 1
        /\ result.total_score = 1
        /\ result.confidence = IF result.is_valid THEN 2 ELSE 1
        /\ result.is_valid = FALSE => "rejection_reason" \in DOMAIN result

\* the empty answer, accepted with confidence 2
C10_Witness ==
    /\ Returned
    /\ answer = ""
    /\ result.is_valid
    /\ result.confidence = 2
    /\ result.total_score = 1

\* the header lines of the seven sections, in the stated order
SectionHeaders ==
    << "[alert] CRITICAL ISSUES DETECTED:",
       "[warn] RELEVANCE CONCERNS:",
       "[clipboard] STRUCTURE ANALYSIS:",
       "[flex] OWNERSHIP & CONFIDENCE:",
       "[target] CLARITY & COMMUNICATION:",
       "[chart] MISSING METRICS:",
       "[memo] OVERALL ASSESSMENT:" >>

\* the text has a digit
HasDigit(text) == \E i \in 1..Len(text) : IsDigit(CharAt(text, i))

\* the lines after the header at line h are the bullets of the first
\* min(most, Len(entries)) entries, in order, and then an empty line
ListsFirst(lines, h, entries, most) ==
    LET shown == IF Len(entries) < most THEN Len(entries) ELSE most
    IN  /\ h + shown + 1 <= Len(lines)
        /\ \A i \in 1..shown : lines[h + i] = "* " \o entries[i]
        /\ lines[h + shown + 1] = ""

\* the feedback text of a returned accepted result has its sections in
\* order, each as often and exactly when stated, and no line for a
\* section left out
SectionsInOrder(r, a) ==
    LET lines   == Lines(r.feedback)
        at(k)   == {i \in 1..Len(lines) : lines[i] = SectionHeaders[k]}
        pos(k)  == CHOOSE i \in at(k) : TRUE
        present == {k \in 1..7 : at(k) # {}}
        headers == UNION {at(k) : k \in 1..7}
        empties == {i \in 1..Len(lines) : lines[i] = ""}
        flags   == r.details.red_flags
        issues  == r.details.relevance_issues
    IN  /\ \A k \in 1..7 : Cardinality(at(k)) <= 1
        /\ {3, 4, 5, 7} \subseteq present
        /\ 1 \in present <=> Len(flags) >= 1
        /\ 2 \in present <=> Len(issues) >= 1
        /\ 6 \in present <=> (~HasDigit(a) /\ r.clarity + r.confidence + r.structure < 3 * 8)
        /\ \A j, k \in present : j < k => pos(j) < pos(k)
        /\ 1 \in present => ListsFirst(lines, pos(1), flags, 3)
        /\ 2 \in present => ListsFirst(lines, pos(2), issues, 2)
        /\ 1 \in headers
        /\ Cardinality(empties) = Cardinality(present) - 1
        /\ \A i \in empties : i + 1 \in headers

\* C12: the feedback text has the sections red flags, relevance concerns,
\* structure, confidence, clarity, missing metrics and overall assessment
\* in this order; structure, confidence, clarity and overall once each;
\* the red-flag section exactly when there is a red flag, listing the
\* first three at most; the relevance section exactly when the verdict
\* has an issue, listing the first two at most; the metrics section
\* exactly when the answer has no digit and the mean score is below 8;
\* a section left out leaves no line
C12_FeedbackSections ==
    (Returned /\ result.is_valid) => SectionsInOrder(result, answer)

\* a feedback text with all seven sections, for an answer with four red
\* flags and a relevance issue
C12_Witness ==
    /\ Returned
    /\ result.is_valid
    /\ Len(result.details.red_flags) >= 4
    /\ Len(result.details.relevance_issues) >= 1
    /\ ~HasDigit(answer)
    /\ Cardinality({i \in 1..Len(Lines(result.feedback)) :
                        \E k \in 1..7 : Lines(result.feedback)[i] = SectionHeaders[k]}) = 7

\* C15: the penalty step takes 0, 1 or 2 (for at most one, two, three or
\* more red flags) from clarity and from confidence, and 3 from structure
\* exactly when a relevance verdict exists and is not relevant, each
\* floored at 1; red flags leave structure alone and the relevance penalty
\* leaves clarity and confidence alone; total_score is the mean of the
\* three adjusted scores, truncated
C15_PenaltyArithmetic ==
    [][pc = "penalties" =>
          LET n == Len(red_flags)
              d == IF n <= 1 THEN 0 ELSE IF n = 2 THEN 1 ELSE 2
              r == IF relevance_result # None /\ ~relevance_result.is_relevant
                   THEN 3 ELSE 0
              Floor1(x) == IF x < 1 THEN 1 ELSE x
          IN  /\ clarity_score' = Floor1(clarity_score - d)
              /\ confidence_score' = Floor1(confidence_score - d)
              /\ structure_score' = Floor1(structure_score - r)
              /\ total_score' = (clarity_score' + confidence_score' + structure_score') \div 3
    ]_vars

\* after the penalty step: three red flags and an irrelevant answer, with
\* clarity lowered by 2 and structure by 3
C15_Witness ==
    /\ pc = "feedback"
    /\ Len(red_flags) = 3
    /\ relevance_result # None
    /\ ~relevance_result.is_relevant
    /\ clarity_score = evaluate_clarity(answer) - 2
    /\ structure_score = evaluate_star_structure(lower(answer)) - 3
    /\ total_score = (clarity_score + confidence_score + structure_score) \div 3

\* the sentence of the structure section for a structure score of 8 or more
AllComponentsSentence == "Strong STAR method execution. All components clearly present."

\* C16 as stated: a returned feedback that says all STAR components are
\* clearly present comes with all four components detected
C16_AllComponentsPresent ==
    (Returned /\ result.is_valid /\ Contains(result.feedback, AllComponentsSentence)) =>
        \A component \in StarKeys : result.details.star_components_found[component]

\* C17 as stated: each question of the bank is classified as the topic at
\* its own position in QUESTION_RELEVANCE_MAP
C17_BankQuestionTopics ==
    (Returned /\ result.is_valid) =>
        \A i \in 1..Len(get_hr_question_bank) :
            question = get_hr_question_bank[i].question =>
                relevance_result.question_type = QUESTION_RELEVANCE_MAP[i][1]

(***************************************************************************)
(* Properties of the text extraction                                       *)
(***************************************************************************)

\* C13 as stated: for both entry points the OCR fallback is called only
\* after direct extraction gave an empty text, no call returns an empty or
\* whitespace-only text, and a call in which direct extraction and the
\* fallback both gave an empty text does not return
C13_EmptyTextIsAnError ==
    /\ ocr_called => IsEmptyText(direct_text)
    /\ x_pc = "returned" =>
           /\ ~IsEmptyText(x_result)
           /\ ~(ocr_called /\ IsEmptyText(direct_text) /\ IsEmptyText(full_text))

\* t has no two spaces in a row, no three line feeds in a row and no line
\* that begins or ends with whitespace
Normalized(t) ==
    /\ ~Contains(t, "  ")
    /\ ~Contains(t, "\n\n\n")
    /\ \A k \in 1..Len(Lines(t)) :
           LET line == Lines(t)[k]
           IN  line # "" => /\ ~IsWs(CharAt(line, 1))
                            /\ ~IsWs(CharAt(line, Len(line)))

\* C14 as stated: the text clean_text returns is whitespace-normalized,
\* and clean_text applied to it returns it unchanged
C14_CleanTextNormalized ==
    /\ c_pc \in {"cleaned", "recleaned"} => Normalized(cleaned)
    /\ c_pc = "recleaned" => recleaned = cleaned

====
